---------------------------- MODULE Spec2Model ----------------------------
(***************************************************************************)
(* A model of the web-compliance scanner backend:                          *)
(*   - the scoring function calculateScore and the rule battery            *)
(*     mapViolations of the mapper (src/unnamed/part_005),                 *)
(*   - the browser-driving extractor scanWebsite / acceptCookieBanners     *)
(*     (src/unnamed/part_003),                                             *)
(*   - the POST /api/scan request handler (src/backend/src/server.ts).     *)
(*                                                                         *)
(* Strings of the program are TLA+ strings; the JavaScript string methods  *)
(* the rules use (includes, startsWith, endsWith, replace, toLowerCase)    *)
(* and the URL parser are written out below as the runtime computes them.  *)
(***************************************************************************)
EXTENDS Integers, Sequences, FiniteSets, TLC

VARIABLES
    violationIdCounter, \* the module-level counter of the mapper (part_005:47)
    now,                \* the wall clock: Date.now() / 1000 is Epoch0 + now seconds
    input,              \* the evidence and url of the direct calls of mapViolations
    last,               \* the latest direct call of mapViolations: input and outcome
    prev,               \* an earlier direct call of mapViolations, kept for comparison
    nScans,             \* how many direct calls of mapViolations were made
    scoreIn,            \* the violation list handed to calculateScore
    scoreOut,           \* what calculateScore returned for scoreIn
    req                 \* the server's request handlers, one record per request

vars == <<violationIdCounter, now, input, last, prev, nScans, scoreIn, scoreOut, req>>

-----------------------------------------------------------------------------
(* Bounds of the model. *)

MaxViolations == 6   \* longest list handed to calculateScore directly
MaxEvidence == 2     \* most cookies and scripts together in a direct mapViolations call
MaxScans == 3        \* direct mapViolations calls in one behaviour
MaxNow == 1          \* the clock runs over 0 .. MaxNow seconds past Epoch0

-----------------------------------------------------------------------------
(* JavaScript string methods. *)

Max(a, b) == IF a >= b THEN a ELSE b

\* s.substring(i) with a 0-based index i
substring(s, i) == SubSeq(s, i + 1, Len(s))

\* the 1-based position of the first occurrence of t in s, 0 when there is none
\* (s.indexOf(t) + 1)
indexOf(s, t) ==
    LET hits == {i \in 1..(Len(s) - Len(t) + 1) : SubSeq(s, i, i + Len(t) - 1) = t}
    IN IF hits = {} THEN 0 ELSE CHOOSE i \in hits : \A j \in hits : i <= j

includes(s, t) == \E i \in 1..(Len(s) - Len(t) + 1) : SubSeq(s, i, i + Len(t) - 1) = t

startsWith(s, t) == Len(t) <= Len(s) /\ SubSeq(s, 1, Len(t)) = t

endsWith(s, t) == Len(t) <= Len(s) /\ SubSeq(s, Len(s) - Len(t) + 1, Len(s)) = t

\* s.replace(t, r) with a string pattern: the first occurrence only
replace(s, t, r) ==
    LET i == indexOf(s, t)
    IN IF i = 0 THEN s
       ELSE SubSeq(s, 1, i - 1) \o r \o SubSeq(s, i + Len(t), Len(s))

UpperCase == "ABCDEFGHIJKLMNOPQRSTUVWXYZ"
LowerCase == "abcdefghijklmnopqrstuvwxyz"
Digits == "0123456789"

UpperChars == {SubSeq(UpperCase, i, i) : i \in 1..Len(UpperCase)}

LowerOf == [ch \in UpperChars |->
              SubSeq(LowerCase, indexOf(UpperCase, ch), indexOf(UpperCase, ch))]

\* the lower-case form of one character
lowerChar(ch) == IF ch \in UpperChars THEN LowerOf[ch] ELSE ch

\* s.toLowerCase(), character by character (computed by halves)
RECURSIVE toLowerCase(_)
toLowerCase(s) ==
    IF Len(s) = 0 THEN ""
    ELSE IF Len(s) = 1 THEN lowerChar(s)
    ELSE LET h == Len(s) \div 2
         IN toLowerCase(SubSeq(s, 1, h)) \o toLowerCase(SubSeq(s, h + 1, Len(s)))

-----------------------------------------------------------------------------
(* new URL(s): the WHATWG parser, as far as the mapper uses it (whether the  *)
(* string parses, the protocol, the hostname).                               *)

SpecialSchemes == {"http", "https", "ws", "wss", "ftp"}

CharsOf(s) == {SubSeq(s, i, i) : i \in 1..Len(s)}

Letters == CharsOf(LowerCase \o UpperCase)

SchemeChars == CharsOf(LowerCase \o UpperCase \o Digits \o "+-.")

\* a scheme is a letter followed by letters, digits, '+', '-' or '.'
IsScheme(s) ==
    /\ s # ""
    /\ SubSeq(s, 1, 1) \in Letters
    /\ \A i \in 1..Len(s) : SubSeq(s, i, i) \in SchemeChars

\* the string up to (not including) the first character of s that is in stops
RECURSIVE UpTo(_, _)
UpTo(s, stops) ==
    IF s = "" \/ includes(stops, SubSeq(s, 1, 1)) THEN ""
    ELSE SubSeq(s, 1, 1) \o UpTo(substring(s, 1), stops)

\* s without its leading '/' and '\' characters
RECURSIVE SkipSlashes(_)
SkipSlashes(s) ==
    IF s # "" /\ includes("/\\", SubSeq(s, 1, 1)) THEN SkipSlashes(substring(s, 1)) ELSE s

NotAUrl == [ok |-> FALSE, protocol |-> "", hostname |-> ""]

URL(s) ==
    LET c == indexOf(s, ":")
        scheme == toLowerCase(SubSeq(s, 1, c - 1))
        rest == substring(s, c)
        special == scheme \in SpecialSchemes
        authority == IF special THEN UpTo(SkipSlashes(rest), "/\\?#")
                     ELSE IF startsWith(rest, "//") THEN UpTo(substring(rest, 2), "/?#")
                     ELSE ""
        at == indexOf(authority, "@")
        hostport == substring(authority, at)
        host == toLowerCase(UpTo(hostport, ":"))
    IN IF c = 0 \/ ~IsScheme(SubSeq(s, 1, c - 1)) THEN NotAUrl
       ELSE IF special /\ host = "" THEN NotAUrl
       ELSE [ok |-> TRUE, protocol |-> scheme \o ":", hostname |-> host]

-----------------------------------------------------------------------------
(* The scoring engine. *)

Severities == {"Low", "Medium", "High", "Critical"}

weights_swapped == [Low |-> 2, Medium |-> 10, High |-> 5, Critical |-> 20]

weights == [Low |-> 2, Medium |-> 5, High |-> 10, Critical |-> 20]

\* the forEach loop of calculateScore: score -= weights[v.severity], in list order
RECURSIVE ScoreLoop(_, _)
ScoreLoop(score, violations) ==
    IF violations = <<>> THEN score
    ELSE ScoreLoop(score - weights[Head(violations).severity], Tail(violations))

calculateScore_noClamp(violations) == ScoreLoop(100, violations)

calculateScore(violations) == Max(0, ScoreLoop(100, violations))


-----------------------------------------------------------------------------
(* The violation-id counter and the violation list under construction.      *)
(* An accumulator acc = [violations, counter] carries the list and the      *)
(* module-level counter through the rules of one mapViolations call.        *)

\* violationIdCounter = 0, the reset at the start of mapViolations
resetCounter_keep(ctr) == ctr

resetCounter(ctr) == 0

\* `violation-${violationIdCounter++}`: the id is made from the old value
generateId_noIncrement(ctr) == [id |-> "violation-" \o ToString(ctr), counter |-> ctr]

generateId(ctr) == [id |-> "violation-" \o ToString(ctr), counter |-> ctr + 1]

\* violations.push({id: generateId(), type, category, severity, element, ...}).
\* description, recommendation and law are fixed texts per type and are left
\* out; family and item record which rule family pushed the violation and for
\* which evidence item (its 1-based position in the input list, 0 for the
\* document): they are bookkeeping of the model, not fields of the program.
push_escalating(acc, type, category, severity, element, family, item) ==
    LET g == generateId(acc.counter)
    IN [violations |-> Append(acc.violations,
                          [id |-> g.id, type |-> type, category |-> category,
                           severity |-> IF Len(acc.violations) > 0 THEN "Critical" ELSE severity,
                           element |-> element, family |-> family, item |-> item]),
        counter |-> g.counter]

push(acc, type, category, severity, element, family, item) ==
    LET g == generateId(acc.counter)
    IN [violations |-> Append(acc.violations,
                          [id |-> g.id, type |-> type, category |-> category,
                           severity |-> severity, element |-> element,
                           family |-> family, item |-> item]),
        counter |-> g.counter]

\* if (cond) { violations.push({...}) }
pushIf(cond, acc, type, category, severity, element, family, item) ==
    IF cond THEN push(acc, type, category, severity, element, family, item) ELSE acc

-----------------------------------------------------------------------------
(* 1. Cookie analysis. *)

\* the clock reads Epoch0 + now seconds after the epoch: Date.now() / 1000
Epoch0 == 1700 * 1000 * 1000

thirteenMonthsInSeconds == 13 * 30 * 24 * 60 * 60

cookieDomainOf(c) == IF startsWith(c.domain, ".") THEN substring(c.domain, 1) ELSE c.domain

isThirdPartyCookie(c, ownDomain) == ~endsWith(cookieDomainOf(c), ownDomain)

isExcessiveExpiry_atCeiling(c, t) ==
    c.expires # -1 /\ c.expires >= (Epoch0 + t) + thirteenMonthsInSeconds

isExcessiveExpiry(c, t) ==
    c.expires # -1 /\ c.expires > (Epoch0 + t) + thirteenMonthsInSeconds

isHttpOnlyMissing_noAllowList(c) == ~c.httpOnly

isHttpOnlyMissing(c) ==
    ~c.httpOnly /\ ~startsWith(c.name, "__utm") /\ ~startsWith(c.name, "_ga")

\* the body of cookies.map's callback for the cookie c at position i
cookieRules(acc, c, i, ownDomain, t) ==
    LET a1 == pushIf(isThirdPartyCookie(c, ownDomain),
                   acc, "Third-Party Cookie Set", "Tracking & Consent", "High",
                        c.name \o " (" \o c.domain \o ")", "cookie", i)
        a2 == pushIf(~c.secure,
                   a1, "Insecure Cookie Transmission", "Data Security", "High",
                        c.name, "cookie", i)
        a3 == pushIf(isHttpOnlyMissing(c),
                   a2, "Cookie Accessible to Client-Side Scripts", "Data Security",
                        "Medium", c.name, "cookie", i)
        a4 == pushIf(c.sameSite = "None" /\ ~c.secure,
                   a3, "Insecure SameSite=None Cookie", "Data Security", "High",
                        c.name, "cookie", i)
        a5 == pushIf(isExcessiveExpiry(c, t),
                   a4, "Excessive Cookie Expiration Date", "Data Minimization", "Low",
                        c.name, "cookie", i)
    IN a5

\* the CookieInfo the callback returns
mapCookie(c) ==
    [name |-> c.name, value |-> c.value, domain |-> c.domain, secure |-> c.secure,
     httpOnly |-> c.httpOnly,
     sameSite |-> IF c.sameSite = "" THEN "Unspecified" ELSE c.sameSite]

cookieAnalysis_firstOnly(acc, cookies, i, ownDomain, t) ==
    IF cookies = <<>> THEN acc ELSE cookieRules(acc, cookies[1], 1, ownDomain, t)

\* cookies.map(...): the cookies from position i on, in list order
RECURSIVE cookieAnalysis(_, _, _, _, _)
cookieAnalysis(acc, cookies, i, ownDomain, t) ==
    IF i > Len(cookies) THEN acc
    ELSE cookieAnalysis(cookieRules(acc, cookies[i], i, ownDomain, t),
                        cookies, i + 1, ownDomain, t)

-----------------------------------------------------------------------------
(* 2. Script and tracker analysis. *)

isThirdParty(src, ownDomain) ==
    LET scriptUrl == URL(src)
    IN IF ~scriptUrl.ok THEN FALSE
       ELSE ~endsWith(scriptUrl.hostname, ownDomain) /\ scriptUrl.hostname # ownDomain

knownTrackers == {
    "google-analytics.com", "googletagmanager.com", "analytics.js", "ga.js", "gtag.js",
    "matomo.js", "piwik.js", "statcounter.com", "hotjar.com", "clarity.ms",
    "yandex.ru/metrika", "mixpanel.com", "segment.com", "amplitude.com",
    "doubleclick.net", "ads.google.com", "adservice.google.com", "criteo.net",
    "adnxs.com", "scorecardresearch.com", "quantserve.com", "rubiconproject.com",
    "taboola.com", "outbrain.com", "adsrvr.org", "hubspot.com", "marketo.net",
    "krxd.net", "dotomi.com", "pubmatic.com", "openx.net",
    "connect.facebook.net", "facebook.net/sdk.js", "platform.twitter.com",
    "static.licdn.com", "linkedin.com/px", "pinterest.com/pin.js", "tiktok.com",
    "snap.com", "googletagmanager.com/gtm.js", "launch.adobe.com", "ensighten.com",
    "tealiumiq.com", "fingerprintjs.com", "fingerprint.com", "youtube.com/embed",
    "player.vimeo.com" }

isKnownTracker(src) == \E tracker \in knownTrackers : includes(src, tracker)

scriptRules_noSubtype(acc, s, i, ownDomain) ==
    LET a1 == pushIf(isThirdParty(s.src, ownDomain) /\ isKnownTracker(s.src),
                     acc, "Third-Party Tracking Script Detected",
                     "Tracking & Consent", "Critical", s.src, "script", i)
        a2 == pushIf(includes(s.src, "fonts.googleapis.com"),
                     a1, "Third-Party Fonts Loaded", "Data Transfer", "Low",
                     s.src, "script", i)
        a3 == pushIf(includes(s.src, "google.com/recaptcha"),
                     a2, "Google ReCAPTCHA Implementation", "Data Transfer", "Medium",
                     s.src, "script", i)
    IN a3

\* the body of scripts.map's callback for the script s at position i
scriptRules(acc, s, i, ownDomain) ==
    LET a1 == IF isThirdParty(s.src, ownDomain) /\ isKnownTracker(s.src)
              THEN push(acc,
                        IF includes(s.src, "fingerprint")
                        THEN "Device Fingerprinting Script Detected"
                        ELSE "Third-Party Tracking Script Detected",
                        "Tracking & Consent", "Critical", s.src, "script", i)
              ELSE acc
        a2 == pushIf(includes(s.src, "fonts.googleapis.com"),
                   a1, "Third-Party Fonts Loaded", "Data Transfer", "Low",
                        s.src, "script", i)
        a3 == pushIf(includes(s.src, "google.com/recaptcha"),
                   a2, "Google ReCAPTCHA Implementation", "Data Transfer", "Medium",
                        s.src, "script", i)
    IN a3

mapScript_unflagged(s, ownDomain) == [src |-> s.src, isThirdParty |-> FALSE]

\* the ScriptInfo the callback returns
mapScript(s, ownDomain) == [src |-> s.src, isThirdParty |-> isThirdParty(s.src, ownDomain)]

RECURSIVE scriptAnalysis(_, _, _, _)
scriptAnalysis(acc, scripts, i, ownDomain) ==
    IF i > Len(scripts) THEN acc
    ELSE scriptAnalysis(scriptRules(acc, scripts[i], i, ownDomain), scripts, i + 1, ownDomain)

-----------------------------------------------------------------------------
(* 3. HTML content analysis.                                               *)
(*                                                                         *)
(* cheerio.load(html) gives a document tree.  A document is the sequence   *)
(* of the elements of <body> in document order; an element is              *)
(*   [tag, attrs, text, parent]                                            *)
(* where attrs maps the attribute names present to their values, text is   *)
(* the element's text content (its descendants' included) and parent is   *)
(* the position of the parent element, 0 for a child of <body>.            *)

hasAttr(el, a) == a \in DOMAIN el.attrs

\* [a*="v"]
attrContains(el, a, v) == hasAttr(el, a) /\ includes(el.attrs[a], v)

\* [a="v"]
attrIs(el, a, v) == hasAttr(el, a) /\ el.attrs[a] = v

\* [a^="v"]
attrStartsWith(el, a, v) == hasAttr(el, a) /\ startsWith(el.attrs[a], v)

RECURSIVE concatText(_, _)
concatText(els, i) ==
    IF i > Len(els) THEN "" ELSE els[i].text \o concatText(els, i + 1)

\* $('body').text()
bodyTextOf(doc) == concatText(SelectSeq(doc, LAMBDA el : el.parent = 0), 1)

\* $(el).parent().text()
parentText(doc, el) == IF el.parent = 0 THEN bodyTextOf(doc) ELSE doc[el.parent].text

\* s.trim(), for the blanks the documents use
RECURSIVE trimStart(_)
trimStart(s) == IF startsWith(s, " ") THEN trimStart(substring(s, 1)) ELSE s

RECURSIVE trimEnd(_)
trimEnd(s) == IF endsWith(s, " ") THEN trimEnd(SubSeq(s, 1, Len(s) - 1)) ELSE s

trim(s) == trimEnd(trimStart(s))

isConsentBanner_textual(el) == includes(toLowerCase(el.text), "agree")

\* $('[id*="consent"], [class*="cookie"], [aria-label*="cookie"], [data-testid*="consent"]')
isConsentBanner(el) ==
    \/ attrContains(el, "id", "consent")
    \/ attrContains(el, "class", "cookie")
    \/ attrContains(el, "aria-label", "cookie")
    \/ attrContains(el, "data-testid", "consent")

consentBannerOf(doc) == SelectSeq(doc, isConsentBanner)

hasGranularControl_caseSensitive(bannerText) ==
    \/ includes(bannerText, "Setting")
    \/ includes(bannerText, "Manage")
    \/ includes(bannerText, "Preference")
    \/ includes(bannerText, "Reject")

hasGranularControl(bannerText) ==
    \/ includes(bannerText, "setting")
    \/ includes(bannerText, "manage")
    \/ includes(bannerText, "preference")
    \/ includes(bannerText, "reject")

noAnchorContains_always(doc, texts) == TRUE

\* $('a:contains("t1"), a:contains("t2"), ...').length === 0
noAnchorContains(doc, texts) ==
    ~\E k \in 1..Len(doc) : doc[k].tag = "a" /\ \E t \in texts : includes(doc[k].text, t)

isCheckedCheckbox(el) == el.tag = "input" /\ attrIs(el, "type", "checkbox") /\ hasAttr(el, "checked")

isSensitiveInput(el) ==
    /\ el.tag = "input"
    /\ \/ attrContains(el, "name", "passw")
       \/ attrContains(el, "name", "card")
       \/ attrContains(el, "name", "credit")
       \/ attrIs(el, "name", "cvv")

isMailto(el) == el.tag = "a" /\ attrStartsWith(el, "href", "mailto:")

isAsset(el) ==
    el.tag = "img" \/ el.tag = "script" \/ (el.tag = "link" /\ attrIs(el, "rel", "stylesheet"))

\* $(el).attr('src') || $(el).attr('href'); "" stands for undefined, as both are falsy
assetSrc(el) ==
    IF hasAttr(el, "src") /\ el.attrs["src"] # "" THEN el.attrs["src"]
    ELSE IF hasAttr(el, "href") THEN el.attrs["href"]
    ELSE ""

\* the document rules, in the order of the source
documentRules(acc, doc, siteUrl) ==
    LET \* a jQuery .each loop: rule(a, el) for the selected elements, in document order
        each(a0, els, rule(_, _)) ==
            LET after[i \in 0..Len(els)] ==
                    IF i = 0 THEN a0 ELSE rule(after[i - 1], els[i])
            IN after[Len(els)]
        bodyText == bodyTextOf(doc)
        consentBanner == consentBannerOf(doc)
        hasConsentBanner == Len(consentBanner) > 0
        bannerText == toLowerCase(concatText(consentBanner, 1))
        d1 == IF ~hasConsentBanner
              THEN push(acc, "No Consent Banner Detected", "Consent & Transparency",
                        "Critical", "<body>", "document", 0)
              ELSE pushIf(~hasGranularControl(bannerText),
                   acc, "Lack of Granular Consent Control", "Consent & Transparency",
                        "High", "Consent Banner", "document", 0)
        checkbox(a, el) ==
            LET textAround == toLowerCase(parentText(doc, el))
            IN pushIf(includes(textAround, "consent") \/ includes(textAround, "agree")
                          \/ includes(textAround, "newsletter"),
                    a, "Pre-ticked Consent Box", "Consent & Transparency", "High",
                         "Checkbox with label: \"" \o trim(parentText(doc, el)) \o "\"",
                         "document", 0)
        d2 == each(d1, SelectSeq(doc, isCheckedCheckbox), checkbox)
        \* bodyText.match(/by using this site|by continuing to use/i)
        lowerBody == toLowerCase(bodyText)
        d3 == pushIf(includes(lowerBody, "by using this site")
                         \/ includes(lowerBody, "by continuing to use"),
                   d2, "Vague or Implied Consent Language", "Consent & Transparency",
                        "Medium", "Body text", "document", 0)
        d4 == pushIf(noAnchorContains(doc, {"Privacy Policy", "privacy policy", "Privacy"}),
                   d3, "Privacy Policy Link Missing", "Consent & Transparency",
                        "High", "<footer>", "document", 0)
        d5 == pushIf(noAnchorContains(doc, {"Cookie Policy", "cookie policy", "Cookie Settings"}),
                   d4, "Cookie Policy or Settings Link Missing",
                        "Consent & Transparency", "Medium", "<footer>", "document", 0)
        d6 == pushIf(noAnchorContains(doc, {"Do Not Sell", "Do not sell", "Do Not Share"}),
                   d5, "CCPA: 'Do Not Sell or Share' Link Missing", "User Rights",
                        "High", "<footer>", "document", 0)
        d7 == pushIf(noAnchorContains(doc, {"Limit the Use of My Sensitive Personal Information"}),
                   d6, "CPRA: 'Limit Use of Sensitive Information' Link Missing",
                        "User Rights", "High", "<footer>", "document", 0)
        d8 == pushIf(noAnchorContains(doc, {"Data Subject Request", "Access My Data"})
                         /\ ~includes(bodyText, "data subject access request"),
                   d7, "No Clear Mechanism for Data Subject Rights (DSAR)",
                        "User Rights", "High", "<footer>", "document", 0)
        form(a, el) ==
            pushIf(hasAttr(el, "action") /\ el.attrs["action"] # ""
                       /\ indexOf(el.attrs["action"], "http://") = 1,
                 a, "Insecure Form Submission", "Data Security", "Critical",
                      "<form action=\"" \o el.attrs["action"] \o "\">", "document", 0)
        d9 == each(d8, SelectSeq(doc, LAMBDA el : el.tag = "form"), form)
        sensitive(a, el) ==
            pushIf(~attrIs(el, "autocomplete", "off"),
                 a, "Autocomplete Enabled on Sensitive Field", "Data Security", "Low",
                      "input[name=\"" \o el.attrs["name"] \o "\"]", "document", 0)
        d10 == each(d9, SelectSeq(doc, isSensitiveInput), sensitive)
        mailto(a, el) ==
            push(a, "Plaintext Email Address Found", "Data Security", "Low",
                 el.attrs["href"], "document", 0)
        d11 == each(d10, SelectSeq(doc, isMailto), mailto)
        mixed(a, el) ==
            pushIf(assetSrc(el) # "" /\ startsWith(assetSrc(el), "http://"),
                 a, "Mixed Content - Insecure Asset Loaded", "Data Security", "Medium",
                      assetSrc(el), "document", 0)
        \* if (siteUrl.protocol === 'https:') { $(...).each(...) }
        d12 == each(d11,
                    IF siteUrl.protocol = "https:" THEN SelectSeq(doc, isAsset) ELSE <<>>,
                    mixed)
    IN d12

-----------------------------------------------------------------------------
(* mapViolations(rawData, url), called when the clock reads t and the       *)
(* module-level counter holds ctr.  The outcome says whether the call threw *)
(* (new URL(url) throws a TypeError before the counter is touched), the     *)
(* AnalysisResult it returned, and the value it leaves in the counter.      *)

NoResult == [url |-> "", scanDate |-> -1, cookies |-> <<>>, scripts |-> <<>>,
             violations |-> <<>>, hasConsentBanner |-> FALSE, score |-> -1]

\* the three rule families, in the order of the source
evaluateRules_scriptsFirst(acc, rawData, siteUrl, ownDomain, t) ==
    documentRules(
        cookieAnalysis(
            scriptAnalysis(acc, rawData.scripts, 1, ownDomain),
            rawData.cookies, 1, ownDomain, t),
        rawData.html, siteUrl)

evaluateRules(acc, rawData, siteUrl, ownDomain, t) ==
    documentRules(
        scriptAnalysis(
            cookieAnalysis(acc, rawData.cookies, 1, ownDomain, t),
            rawData.scripts, 1, ownDomain),
        rawData.html, siteUrl)

AnalysisResult_anyMarkup(acc, rawData, url, ownDomain, t) ==
    [threw |-> FALSE,
     result |-> [url |-> url,
                 scanDate |-> Epoch0 + t,
                 cookies |-> [i \in 1..Len(rawData.cookies) |->
                                mapCookie(rawData.cookies[i])],
                 scripts |-> [i \in 1..Len(rawData.scripts) |->
                                mapScript(rawData.scripts[i], ownDomain)],
                 violations |-> acc.violations,
                 hasConsentBanner |-> Len(rawData.html) > 0,
                 score |-> calculateScore(acc.violations)],
     counter |-> acc.counter]

\* the return statement, once the rules have left acc
AnalysisResult(acc, rawData, url, ownDomain, t) ==
    [threw |-> FALSE,
     result |-> [url |-> url,
                 scanDate |-> Epoch0 + t,
                 cookies |-> [i \in 1..Len(rawData.cookies) |->
                                mapCookie(rawData.cookies[i])],
                 scripts |-> [i \in 1..Len(rawData.scripts) |->
                                mapScript(rawData.scripts[i], ownDomain)],
                 violations |-> acc.violations,
                 hasConsentBanner |-> Len(consentBannerOf(rawData.html)) > 0,
                 score |-> calculateScore(acc.violations)],
     counter |-> acc.counter]

mapViolations(rawData, url, t, ctr) ==
    LET siteUrl == URL(url)
        ownDomain == replace(siteUrl.hostname, "www.", "")
        acc0 == [violations |-> <<>>, counter |-> resetCounter(ctr)]
    IN IF ~siteUrl.ok
       THEN [threw |-> TRUE, result |-> NoResult, counter |-> ctr]
       ELSE AnalysisResult(evaluateRules(acc0, rawData, siteUrl, ownDomain, t),
                           rawData, url, ownDomain, t)

-----------------------------------------------------------------------------
(* The evidence the model draws its inputs from.  The scanned site is      *)
(* example.com; RetentionCeiling0 is the retention ceiling of a scan made  *)
(* when the clock reads Epoch0.                                            *)

RetentionCeiling0 == Epoch0 + thirteenMonthsInSeconds

Cookie(name, domain, secure, httpOnly, sameSite, expires) ==
    [name |-> name, value |-> "1", domain |-> domain, secure |-> secure,
     httpOnly |-> httpOnly, sameSite |-> sameSite, expires |-> expires]

CookieCatalog == {
    \* a first-party session cookie with every flag set
    Cookie("sid", "www.example.com", TRUE, TRUE, "Lax", -1),
    \* a third-party analytics cookie, expiring one second past RetentionCeiling0
    Cookie("_ga", ".tracker.example", FALSE, FALSE, "None", RetentionCeiling0 + 1),
    \* a first-party preference cookie readable by scripts, expiring at RetentionCeiling0
    Cookie("pref", ".example.com", TRUE, FALSE, "Strict", RetentionCeiling0),
    \* a cookie of another site whose domain has the site's domain as a suffix
    Cookie("id", "notexample.com", FALSE, TRUE, "", -1) }

Script(src) == [src |-> src]

ScriptCatalog == {
    Script("https://www.example.com/js/app.js"),
    Script("https://www.google-analytics.com/analytics.js"),
    Script("https://cdn.fingerprintjs.com/v3/fp.js"),
    Script("https://fonts.googleapis.com/css?family=Roboto"),
    Script("https://www.google.com/recaptcha/api.js"),
    Script("/js/local.js") }

NoAttrs == [a \in {} |-> ""]

El(tag, attrs, text, parent) == [tag |-> tag, attrs |-> attrs, text |-> text, parent |-> parent]

\* <body></body>
DocEmpty == <<>>

\* a consent banner with granular controls and a footer with every required link
DocCompliant == <<
    El("div", "id" :> "cookie-consent", "Cookies: Accept Reject ", 0),
    El("footer", NoAttrs,
       "Privacy Policy Cookie Settings Do Not Sell "
         \o "Limit the Use of My Sensitive Personal Information Access My Data", 0),
    El("a", "href" :> "/privacy", "Privacy Policy ", 2),
    El("a", "href" :> "/cookies", "Cookie Settings ", 2),
    El("a", "href" :> "/ccpa", "Do Not Sell ", 2),
    El("a", "href" :> "/limit", "Limit the Use of My Sensitive Personal Information ", 2),
    El("a", "href" :> "/dsar", "Access My Data", 2) >>

\* an accept-only banner with implied-consent wording, and a mail link
DocBannerOnly == <<
    El("div", "class" :> "cookie-bar", "By using this site you agree OK ", 0),
    El("a", "href" :> "mailto:a@example.com", "Privacy", 0) >>

\* no banner; a login form posting over http with a pre-ticked newsletter box,
\* sensitive fields and an image loaded over http
DocForms == <<
    El("form", "action" :> "http://example.com/login", " I agree ", 0),
    El("label", NoAttrs, " I agree ", 1),
    El("input", ("type" :> "checkbox") @@ ("checked" :> ""), "", 2),
    El("input", ("type" :> "password") @@ ("name" :> "password"), "", 1),
    El("input", ("name" :> "cvv") @@ ("autocomplete" :> "off"), "", 1),
    El("img", "src" :> "http://example.com/logo.png", "", 0),
    El("script", "src" :> "https://example.com/app.js", "", 0) >>

Page(url, html) == [url |-> url, html |-> html]

\* the pages scanned: the url requested and the document the browser ended on.
\* The last url is a non-empty string that is no absolute URL.
PageCatalog == {
    Page("https://www.example.com/", DocEmpty),
    Page("https://www.example.com/", DocCompliant),
    Page("http://example.com/shop", DocBannerOnly),
    Page("https://www.example.com/", DocForms),
    Page("http://example.com/shop", DocForms),
    Page("example.com", DocEmpty) }

\* the sequences over S of length at most n
SeqsUpTo(S, n) == UNION {[1..k -> S] : k \in 0..n}

-----------------------------------------------------------------------------
(* The server: one handler of POST /api/scan per request.  A handler runs   *)
(* scanWebsite, which yields at every await, then mapViolations and the     *)
(* response in one synchronous stretch.                                     *)

RawScanData(cookies, scripts, html) == [cookies |-> cookies, scripts |-> scripts, html |-> html]

Requests == {"r1", "r2"}

\* the candidates of acceptCookieBanners, in the order they are tried
selectors == <<
    "button:has-text(\"Accept all\")",
    "button:has-text(\"Accept\")",
    "button:has-text(\"Allow all\")",
    "button:has-text(\"Allow\")",
    "button:has-text(\"I agree\")",
    "button:has-text(\"OK\")",
    "[id*=\"consent\"]",
    "[class*=\"consent\"]",
    "[id*=\"cookie\"]",
    "[class*=\"cookie\"]" >>

\* the url of a request body: "" stands for a body without url
RequestUrls == {"", "https://www.example.com/", "example.com"}

\* what the browser may hand back: context.cookies(), page.content(), page.evaluate(...)
BrowserCookies ==
    {<<>>, <<Cookie("_ga", ".tracker.example", FALSE, FALSE, "None", RetentionCeiling0 + 1)>>}

BrowserScripts == {<<Script("https://www.google-analytics.com/analytics.js")>>}

BrowserDocs == {DocEmpty, DocCompliant}

Artifacts == {"cookies", "html", "scripts"}

\* a handler before its request arrives
\*   pc        where the handler stands
\*   url       req.body.url
\*   browser   "none" before chromium.launch resolves, then "open", then "closed"
\*   sel       the position in selectors of the candidate being tried
\*   clicks    the successful clicks of acceptCookieBanners
\*   pageGone  whether the page closed or crashed during the settle wait
\*   scans     how often the handler called scanWebsite
\*   failedAt  the step of scanWebsite that threw, "" if none did
\*   thrown    whether an error is propagating out of scanWebsite
\*   rawData   the artifacts collected so far, got naming which
\*   outcome   of the scanWebsite promise: "pending", "returned" or "rejected"
\*   mapped    whether mapViolations was called
\*   responses the responses sent
IdleRequest ==
    [pc |-> "idle", url |-> "", browser |-> "none", sel |-> 0, clicks |-> 0,
     pageGone |-> FALSE, scans |-> 0, failedAt |-> "", thrown |-> FALSE, rawData |-> RawScanData(<<>>, <<>>, <<>>), got |-> {},
     outcome |-> "pending", mapped |-> FALSE, responses |-> <<>>]

NoRequests == [r \in Requests |-> IdleRequest]

-----------------------------------------------------------------------------
(* Direct calls of the pure functions. *)

\* what a direct call of mapViolations may be given: a page with at most n
\* cookies and scripts together
InputsUpTo(n) ==
    {in \in {[rawData |-> RawScanData(c, s, p.html), url |-> p.url] :
                c \in SeqsUpTo(CookieCatalog, n), s \in SeqsUpTo(ScriptCatalog, n),
                p \in PageCatalog} :
        Len(in.rawData.cookies) + Len(in.rawData.scripts) <= n}

NoInput == [rawData |-> RawScanData(<<>>, <<>>, <<>>), url |-> ""]

\* the scan of another page that may run between two scans of input
OtherInput ==
    [rawData |-> RawScanData(<<>>, <<>>, DocBannerOnly), url |-> "http://example.com/shop"]

NoScan == [called |-> FALSE, input |-> NoInput, t |-> 0, threw |-> FALSE, result |-> NoResult]


InitIdle ==
    /\ violationIdCounter = 0
    /\ now = 0
    /\ input = NoInput
    /\ last = NoScan
    /\ prev = NoScan
    /\ nScans = 0
    /\ scoreIn = <<>>
    /\ scoreOut = 100
    /\ req = NoRequests

\* the call on in has ended with out: the caller holds what it returned and
\* the module holds the counter it left
Ended(in, out) ==
    /\ last' = [called |-> TRUE, input |-> in, t |-> now,
                threw |-> out.threw, result |-> out.result]
    /\ violationIdCounter' = out.counter
    /\ nScans' = nScans + 1
    /\ UNCHANGED <<now, input, scoreIn, scoreOut, req>>

\* one call mapViolations(in.rawData, in.url), made when the clock reads now
Call(in) == Ended(in, mapViolations(in.rawData, in.url, now, violationIdCounter))

\* SpecMap: mapViolations is applied to input at a clock reading drawn with it,
\* as the first call or after a scan of another page has used the counter.

ScanOtherFirst == nScans = 0 /\ Call(OtherInput) /\ UNCHANGED prev

ScanInput == nScans < 2 /\ Call(input) /\ UNCHANGED prev

InitMap ==
    /\ input \in InputsUpTo(MaxEvidence)
    /\ now \in 0..MaxNow
    /\ violationIdCounter = 0
    /\ last = NoScan
    /\ prev = NoScan
    /\ nScans = 0
    /\ scoreIn = <<>>
    /\ scoreOut = 100
    /\ req = NoRequests

NextMap == ScanOtherFirst \/ ScanInput

SpecMap == InitMap /\ [][NextMap]_vars

\* SpecPair: up to MaxScans scans, of input or of another page, while the
\* clock advances; one of the calls is kept in prev to compare a later one with.

Tick ==
    /\ now < MaxNow
    /\ now' = now + 1
    /\ UNCHANGED <<violationIdCounter, input, last, prev, nScans, scoreIn, scoreOut, req>>

Rescan == nScans < MaxScans /\ Call(input) /\ UNCHANGED prev

ScanOther == nScans < MaxScans /\ Call(OtherInput) /\ UNCHANGED prev

\* the latest call is kept for comparison
Keep ==
    /\ last.called /\ ~prev.called
    /\ prev' = last
    /\ UNCHANGED <<violationIdCounter, now, input, last, nScans, scoreIn, scoreOut, req>>

InitPair ==
    /\ input \in InputsUpTo(1)
    /\ now = 0
    /\ violationIdCounter = 0
    /\ last = NoScan
    /\ prev = NoScan
    /\ nScans = 0
    /\ scoreIn = <<>>
    /\ scoreOut = 100
    /\ req = NoRequests

NextPair == Rescan \/ ScanOther \/ Keep \/ Tick

SpecPair == InitPair /\ [][NextPair]_vars

\* one more violation of severity sev is found and the list is scored again
AddViolation(sev) ==
    /\ Len(scoreIn) < MaxViolations
    /\ scoreIn' = Append(scoreIn, [id |-> generateId(Len(scoreIn)).id, severity |-> sev])
    /\ scoreOut' = calculateScore(scoreIn')
    /\ UNCHANGED <<violationIdCounter, now, input, last, prev, nScans, req>>

InitScore ==
    /\ scoreIn = <<>>
    /\ scoreOut = calculateScore(<<>>)
    /\ violationIdCounter = 0
    /\ now = 0
    /\ input = NoInput
    /\ last = NoScan
    /\ prev = NoScan
    /\ nScans = 0
    /\ req = NoRequests

NextScore == \E sev \in Severities : AddViolation(sev)

SpecScore == InitScore /\ [][NextScore]_vars

-----------------------------------------------------------------------------
(* Direct calls of mapViolations on selected evidence: cookie lists, script *)
(* lists, documents and urls that the rules tell apart.                     *)

\* no banner, and a footer with every required link
DocLinksOnly == <<
    El("footer", NoAttrs,
       "Privacy Policy Cookie Settings Do Not Sell "
         \o "Limit the Use of My Sensitive Personal Information Access My Data", 0),
    El("a", "href" :> "/privacy", "Privacy Policy ", 1),
    El("a", "href" :> "/cookies", "Cookie Settings ", 1),
    El("a", "href" :> "/ccpa", "Do Not Sell ", 1),
    El("a", "href" :> "/limit", "Limit the Use of My Sensitive Personal Information ", 1),
    El("a", "href" :> "/dsar", "Access My Data", 1) >>

\* no banner; the privacy link reads "Privacy Notice", the policy is named in a paragraph
DocPrivacyNotice == <<
    El("p", NoAttrs, "See our Privacy Policy. ", 0),
    El("a", "href" :> "/privacy", "Privacy Notice", 0) >>

CaseCookies == {
    <<>>,
    \* one third-party cookie sent over http, with its other attributes in order
    << Cookie("tid", "tracker.example", FALSE, TRUE, "Lax", -1) >>,
    \* a clean first-party cookie, then an insecure SameSite=None analytics cookie
    << Cookie("sid", "www.example.com", TRUE, TRUE, "Lax", -1),
       Cookie("_ga", ".tracker.example", FALSE, FALSE, "None", RetentionCeiling0 + 1) >>,
    \* a cookie of shop.example.com, then one of notexample.com
    << Cookie("cart", "shop.example.com", TRUE, TRUE, "Lax", -1),
       Cookie("id", "notexample.com", FALSE, TRUE, "", -1) >>,
    \* two first-party cookies readable by scripts, the first an analytics cookie
    << Cookie("__utma", ".example.com", TRUE, FALSE, "Lax", -1),
       Cookie("lang", "www.example.com", TRUE, FALSE, "Lax", -1) >> }

CaseScripts == {
    <<>>,
    << Script("https://www.google-analytics.com/analytics.js") >>,
    \* a protocol-relative src, which new URL rejects, then a tracker
    << Script("//fonts.googleapis.com/css?family=Roboto"),
       Script("https://www.google-analytics.com/analytics.js") >>,
    \* a relative src, then a fingerprinting script
    << Script("/js/local.js"), Script("https://cdn.fingerprintjs.com/v3/fp.js") >>,
    \* a tracker and a fingerprinting script
    << Script("https://www.google-analytics.com/analytics.js"),
       Script("https://cdn.fingerprintjs.com/v3/fp.js") >> }

\* a banner with granular controls, marked by the word "cookie" in its id only
DocCookieId == <<
    El("div", "id" :> "cookie-banner", "We use cookies. Accept Manage preferences ", 0),
    El("a", "href" :> "/privacy", "Privacy Policy", 0) >>

CaseDocs ==
    {DocEmpty, DocCompliant, DocBannerOnly, DocCookieId, DocLinksOnly, DocPrivacyNotice, DocForms}

\* the third url has "www." inside the hostname, the last is no absolute URL
CaseUrls == {"https://www.example.com/", "http://example.com/shop",
             "https://shop.www.example.com/", "example.com"}

CaseInputs ==
    {[rawData |-> RawScanData(c, s, d), url |-> u] :
        c \in CaseCookies, s \in CaseScripts, d \in CaseDocs, u \in CaseUrls}

InitCases ==
    /\ input \in CaseInputs
    /\ now \in 0..MaxNow
    /\ violationIdCounter = 0
    /\ last = NoScan
    /\ prev = NoScan
    /\ nScans = 0
    /\ scoreIn = <<>>
    /\ scoreOut = 100
    /\ req = NoRequests

SpecCases == InitCases /\ [][NextMap]_vars

-----------------------------------------------------------------------------
(* The request handler and scanWebsite, step by step. *)

others == <<violationIdCounter, now, input, last, prev, nScans, scoreIn, scoreOut>>

Set(r, rec) == req' = [req EXCEPT ![r] = rec]

\* the handler's responses
BadRequest == [status |-> 400, body |-> "detail", result |-> NoResult]

ScanFailed_errorKey == [status |-> 500, body |-> "error", result |-> NoResult]

ScanFailed == [status |-> 500, body |-> "detail", result |-> NoResult]

Report(result) == [status |-> 200, body |-> "AnalysisResult", result |-> result]

\* a request arrives: without url it is answered 400, otherwise scanWebsite(url)
\* is called and chromium.launch is awaited
Receive(r) ==
    /\ req[r].pc = "idle"
    /\ \E url \in RequestUrls :
          IF url = ""
          THEN Set(r, [req[r] EXCEPT !.pc = "done", !.responses = Append(@, BadRequest)])
          ELSE Set(r, [req[r] EXCEPT !.pc = "launch", !.url = url, !.scans = @ + 1])
    /\ UNCHANGED others

\* chromium.launch resolves
LaunchOk(r) ==
    /\ req[r].pc = "launch"
    /\ Set(r, [req[r] EXCEPT !.pc = "newContext", !.browser = "open"])
    /\ UNCHANGED others

\* chromium.launch rejects: there is no browser, and scanWebsite rejects
LaunchFail(r) ==
    /\ req[r].pc = "launch"
    /\ Set(r, [req[r] EXCEPT !.pc = "catch", !.failedAt = "launch", !.thrown = TRUE,
                             !.outcome = "rejected"])
    /\ UNCHANGED others

\* browser.newContext resolves, then context.newPage
SetupOk(r) ==
    /\ req[r].pc \in {"newContext", "newPage"}
    /\ Set(r, [req[r] EXCEPT !.pc = IF @ = "newContext" THEN "newPage" ELSE "goto"])
    /\ UNCHANGED others

\* browser.newContext or context.newPage rejects: both stand before the try
\* block, so scanWebsite rejects without running the finally block
SetupFail(r) ==
    /\ req[r].pc \in {"newContext", "newPage"}
    /\ Set(r, [req[r] EXCEPT !.pc = "catch", !.failedAt = req[r].pc, !.thrown = TRUE,
                             !.outcome = "rejected"])
    /\ UNCHANGED others

\* page.goto resolves: acceptCookieBanners starts with the first candidate.
\* (Whether the browser navigates to a string that new URL rejects is left
\* open: page.goto may resolve or reject for every url.)
GotoOk(r) ==
    /\ req[r].pc = "goto"
    /\ Set(r, [req[r] EXCEPT !.pc = "isVisible", !.sel = 1])
    /\ UNCHANGED others

GotoFail_swallowed(r) ==
    /\ req[r].pc = "goto"
    /\ Set(r, [req[r] EXCEPT !.pc = "isVisible", !.sel = 1, !.failedAt = "goto"])
    /\ UNCHANGED others

\* page.goto rejects (unreachable, DNS failure, refused, the 25 s timeout):
\* control passes to the finally block
GotoFail(r) ==
    /\ req[r].pc = "goto"
    /\ Set(r, [req[r] EXCEPT !.pc = "close", !.failedAt = "goto", !.thrown = TRUE])
    /\ UNCHANGED others

NextSelector_throwsAtEnd(rec) ==
    IF rec.sel < Len(selectors)
    THEN [rec EXCEPT !.pc = "isVisible", !.sel = @ + 1]
    ELSE [rec EXCEPT !.pc = "close", !.sel = 0, !.failedAt = "banner", !.thrown = TRUE]

\* the loop of acceptCookieBanners moves to the next candidate, or ends
NextSelector(rec) ==
    IF rec.sel < Len(selectors)
    THEN [rec EXCEPT !.pc = "isVisible", !.sel = @ + 1]
    ELSE [rec EXCEPT !.pc = "networkidle", !.sel = 0]

\* element.isVisible() resolves true: the click is awaited.  On a page that is
\* gone every call rejects.
Visible(r) ==
    /\ req[r].pc = "isVisible"
    /\ ~req[r].pageGone
    /\ Set(r, [req[r] EXCEPT !.pc = "click"])
    /\ UNCHANGED others

\* element.isVisible() resolves false or rejects: the next candidate
NotVisible(r) ==
    /\ req[r].pc = "isVisible"
    /\ Set(r, NextSelector(req[r]))
    /\ UNCHANGED others

\* element.click resolves: page.waitForTimeout(1000) is awaited
ClickOk(r) ==
    /\ req[r].pc = "click"
    /\ Set(r, [req[r] EXCEPT !.pc = "settle", !.clicks = @ + 1])
    /\ UNCHANGED others

\* element.click rejects (2 s timeout, not clickable): caught, the next candidate
ClickFail(r) ==
    /\ req[r].pc = "click"
    /\ Set(r, NextSelector(req[r]))
    /\ UNCHANGED others

\* page.waitForTimeout(1000) rejects, as it does when the page closes or
\* crashes while it waits: the catch of the loop takes it and the next
\* candidate is tried
SettleFail(r) ==
    /\ req[r].pc = "settle"
    /\ Set(r, [NextSelector(req[r]) EXCEPT !.pageGone = TRUE])
    /\ UNCHANGED others

Settled_keepsLooking(r) ==
    /\ req[r].pc = "settle"
    /\ Set(r, NextSelector(req[r]))
    /\ UNCHANGED others

\* the wait is over: acceptCookieBanners returns and the network-idle wait starts
Settled(r) ==
    /\ req[r].pc = "settle"
    /\ Set(r, [req[r] EXCEPT !.pc = "networkidle", !.sel = 0])
    /\ UNCHANGED others

\* page.waitForLoadState('networkidle') resolves
NetworkIdleOk(r) ==
    /\ req[r].pc = "networkidle"
    /\ ~req[r].pageGone
    /\ Set(r, [req[r] EXCEPT !.pc = "cookies"])
    /\ UNCHANGED others

\* page.waitForLoadState('networkidle') rejects after 15 s: nothing catches it
\* inside the try block, control passes to the finally block
NetworkIdleTimeout(r) ==
    /\ req[r].pc = "networkidle"
    /\ Set(r, [req[r] EXCEPT !.pc = "close", !.failedAt = "networkidle",
                             !.thrown = TRUE])
    /\ UNCHANGED others

\* context.cookies() resolves
CookiesOk(r) ==
    /\ req[r].pc = "cookies"
    /\ \E c \in BrowserCookies :
          Set(r, [req[r] EXCEPT !.pc = "content", !.rawData.cookies = c,
                                !.got = @ \cup {"cookies"}])
    /\ UNCHANGED others

ContentOk_returnsEarly(r) ==
    /\ req[r].pc = "content"
    /\ \E d \in BrowserDocs :
          Set(r, [req[r] EXCEPT !.pc = "close", !.rawData.html = d,
                                !.got = @ \cup {"html"}])
    /\ UNCHANGED others

\* page.content() resolves
ContentOk(r) ==
    /\ req[r].pc = "content"
    /\ \E d \in BrowserDocs :
          Set(r, [req[r] EXCEPT !.pc = "evaluate", !.rawData.html = d,
                                !.got = @ \cup {"html"}])
    /\ UNCHANGED others

\* page.evaluate(...) resolves: the return statement is reached and the finally
\* block runs before scanWebsite returns
EvaluateOk(r) ==
    /\ req[r].pc = "evaluate"
    /\ \E s \in BrowserScripts :
          Set(r, [req[r] EXCEPT !.pc = "close", !.rawData.scripts = s,
                                !.got = @ \cup {"scripts"}])
    /\ UNCHANGED others

\* context.cookies, page.content or page.evaluate rejects: the locals are lost
\* and control passes to the finally block
CollectFail(r) ==
    /\ req[r].pc \in {"cookies", "content", "evaluate"}
    /\ Set(r, [req[r] EXCEPT !.pc = "close", !.failedAt = req[r].pc, !.thrown = TRUE,
                             !.rawData = RawScanData(<<>>, <<>>, <<>>), !.got = {}])
    /\ UNCHANGED others

\* finally { await browser.close() }: then scanWebsite returns what it
\* collected, or rejects with the error that brought control here
Close(r) ==
    /\ req[r].pc = "close"
    /\ Set(r, [req[r] EXCEPT !.browser = "closed",
                             !.pc = IF req[r].thrown THEN "catch" ELSE "resume",
                             !.outcome = IF req[r].thrown THEN "rejected" ELSE "returned"])
    /\ UNCHANGED others

\* mapViolations has ended with out: the report goes out, or the catch block's
\* 500 if it threw
Mapped(r, out) ==
    /\ violationIdCounter' = out.counter
    /\ Set(r, [req[r] EXCEPT !.pc = "done", !.mapped = TRUE,
                             !.responses = Append(@, IF out.threw THEN ScanFailed
                                                     ELSE Report(out.result))])

\* the handler resumes with rawData: mapViolations(rawData, url) and
\* res.json(analysisResult) run without yielding; if mapViolations throws, the
\* catch block answers 500
Resume(r) ==
    /\ req[r].pc = "resume"
    /\ Mapped(r, mapViolations(req[r].rawData, req[r].url, now, violationIdCounter))
    /\ UNCHANGED <<now, input, last, prev, nScans, scoreIn, scoreOut>>

Catch_retries(r) ==
    /\ req[r].pc = "catch"
    /\ Set(r, IF req[r].scans < 2
              THEN [IdleRequest EXCEPT !.pc = "launch", !.url = req[r].url, !.scans = req[r].scans + 1]
              ELSE [req[r] EXCEPT !.pc = "done", !.responses = Append(@, ScanFailed)])
    /\ UNCHANGED others

\* the handler's catch block: res.status(500).json({detail: ...})
Catch(r) ==
    /\ req[r].pc = "catch"
    /\ Set(r, [req[r] EXCEPT !.pc = "done", !.responses = Append(@, ScanFailed)])
    /\ UNCHANGED others

Next ==
    \E r \in Requests :
          \/ Receive(r)
          \/ LaunchOk(r) \/ LaunchFail(r)
          \/ SetupOk(r) \/ SetupFail(r)
          \/ GotoOk(r) \/ GotoFail(r)
          \/ Visible(r) \/ NotVisible(r)
          \/ ClickOk(r) \/ ClickFail(r)
          \/ Settled(r) \/ SettleFail(r)
          \/ NetworkIdleOk(r) \/ NetworkIdleTimeout(r)
          \/ CookiesOk(r) \/ ContentOk(r) \/ EvaluateOk(r) \/ CollectFail(r)
          \/ Close(r)
          \/ Resume(r)
          \/ Catch(r)

Init == InitIdle

Spec == Init /\ [][Next]_vars

-----------------------------------------------------------------------------
(* Properties. *)

\* how many violations of vs have severity sev
CountSeverity(vs, sev) == Cardinality({k \in 1..Len(vs) : vs[k].severity = sev})

\* the sum of the penalties of vs, severity by severity
Penalty(vs) ==
    2 * CountSeverity(vs, "Low") + 5 * CountSeverity(vs, "Medium")
      + 10 * CountSeverity(vs, "High") + 20 * CountSeverity(vs, "Critical")

Reverse(vs) == [k \in 1..Len(vs) |-> vs[Len(vs) + 1 - k]]

TypesOf(vs) == [k \in 1..Len(vs) |-> vs[k].type]

\* the ids of vs are violation-0, violation-1, ... in list order, hence distinct
IdsInOrder(vs) ==
    /\ \A k \in 1..Len(vs) : vs[k].id = "violation-" \o ToString(k - 1)
    /\ \A j, k \in 1..Len(vs) : j # k => vs[j].id # vs[k].id

\* the latest direct call of mapViolations returned a result
Returned(scan) == scan.called /\ ~scan.threw

\* C1: the score stored in the AnalysisResult that mapViolations returns lies
\* in 0..100, whatever violations the scan found.
C1_ScoreInRange ==
    Returned(last) => last.result.score >= 0 /\ last.result.score <= 100

\* a scan whose penalties add up to more than 100 and whose score is 0
C1_Witness ==
    /\ Returned(last)
    /\ Penalty(last.result.violations) > 100
    /\ last.result.score = 0

\* C2: calculateScore returns max(0, 100 - sum of the weights) with Low=2,
\* Medium=5, High=10, Critical=20, the same for the list in reverse order, and
\* appending a violation never raises the score.
C2_ScoreExactAndMonotone ==
    /\ [](/\ scoreOut = Max(0, 100 - Penalty(scoreIn))
          /\ calculateScore(Reverse(scoreIn)) = scoreOut)
    /\ [][scoreOut' <= scoreOut]_vars

\* a list of mixed severities whose penalties exceed 100
C2_Witness ==
    /\ Penalty(scoreIn) > 100
    /\ scoreOut = 0
    /\ \E k \in 1..Len(scoreIn) : scoreIn[k].severity # scoreIn[1].severity

\* C3: the violation at position k (0-based) of a result has id violation-k,
\* so the ids of one scan are pairwise distinct.
C3_IdsFollowRuleOrder ==
    Returned(last) => IdsInOrder(last.result.violations)

\* a scan of input with several violations, made after another scan used the counter
C3_Witness ==
    /\ Returned(last)
    /\ nScans = 2
    /\ last.input = input
    /\ Len(last.result.violations) >= 3

\* a result's first id is violation-0
StartsOver(scan) ==
    Len(scan.result.violations) > 0 => scan.result.violations[1].id = "violation-0"

\* prev and last are two scans of the same evidence and url that returned
SameInputTwice ==
    /\ Returned(prev) /\ Returned(last)
    /\ prev.input = last.input

\* no cookie's expiry lies past the retention ceiling of the earlier scan and
\* not past that of the later one
NoExpiryBetweenCeilings ==
    \A k \in 1..Len(last.input.rawData.cookies) :
        LET c == last.input.rawData.cookies[k]
        IN \/ c.expires = -1
           \/ c.expires <= Epoch0 + prev.t + 13 * 30 * 24 * 60 * 60
           \/ c.expires > Epoch0 + last.t + 13 * 30 * 24 * 60 * 60

\* C4 as stated: two scans of the same cookies, scripts, HTML and URL give the
\* same sequence of violation types, each starting over at violation-0.
C4_SameInputSameTypes ==
    SameInputTwice =>
        /\ TypesOf(prev.result.violations) = TypesOf(last.result.violations)
        /\ StartsOver(prev) /\ StartsOver(last)

\* C4 amended: the type sequences agree when no cookie's expiry lies between
\* the two scans' retention ceilings; the ids start over at violation-0 in
\* every case.
C4_SameTypesUnlessExpiryBetween ==
    SameInputTwice =>
        /\ NoExpiryBetweenCeilings =>
              TypesOf(prev.result.violations) = TypesOf(last.result.violations)
        /\ StartsOver(prev) /\ StartsOver(last)

\* the third call rescans, at a later clock reading, the evidence of a kept scan
\* that found violations
C4_Witness ==
    /\ SameInputTwice
    /\ NoExpiryBetweenCeilings
    /\ nScans = 3
    /\ prev.t < last.t
    /\ last.input.rawData.cookies # <<>>
    /\ Len(last.result.violations) > 0

\* the reports sent for request r
ReportsOf(r) == SelectSeq(req[r].responses, LAMBDA resp : resp.status = 200)

\* C5: whatever the interleaving of the requests, the ids in every report
\* sent are violation-0 .. violation-(n-1), none shifted, skipped or repeated.
C5_IdsPerReport ==
    \A r \in Requests :
        \A k \in 1..Len(ReportsOf(r)) : IdsInOrder(ReportsOf(r)[k].result.violations)

\* both requests were answered with a report of several violations
C5_Witness ==
    \A r \in Requests :
        /\ Len(ReportsOf(r)) = 1
        /\ Len(ReportsOf(r)[1].result.violations) >= 3

\* C6: once scanWebsite has settled, a browser it launched is closed.
C6_BrowserClosedWhenSettled ==
    \A r \in Requests :
        req[r].outcome # "pending" /\ req[r].browser # "none" => req[r].browser = "closed"

\* C7: when only the network-idle wait timed out, scanWebsite returns what it
\* collected and the request is answered with a report.
C7_IdleTimeoutTolerated ==
    \A r \in Requests :
        req[r].failedAt = "networkidle" =>
            /\ req[r].outcome # "rejected"
            /\ req[r].pc = "done" => Len(ReportsOf(r)) = 1

\* C8: when navigation fails, mapViolations is not run and the request is
\* answered with one error response and no report.
C8_NavigationFailureAborts ==
    \A r \in Requests :
        req[r].failedAt = "goto" =>
            /\ ~req[r].mapped
            /\ Len(ReportsOf(r)) = 0
            /\ Len(req[r].responses) <= 1
            /\ req[r].pc = "done" => req[r].responses = <<ScanFailed>>

\* a request whose navigation failed has been answered
C8_Witness ==
    \E r \in Requests : req[r].failedAt = "goto" /\ req[r].pc = "done"

\* C9: mapViolations runs, and a report exists, only after scanWebsite has
\* returned with cookies, scripts and HTML all collected.
C9_MapAfterExtraction ==
    \A r \in Requests :
        req[r].mapped \/ Len(ReportsOf(r)) > 0 =>
            /\ req[r].outcome = "returned"
            /\ req[r].got = Artifacts

\* a request was answered with a report that has violations
C9_Witness ==
    \E r \in Requests :
        /\ req[r].mapped
        /\ Len(ReportsOf(r)) = 1
        /\ Len(ReportsOf(r)[1].result.violations) > 0

CookieTypes == {"Third-Party Cookie Set", "Insecure Cookie Transmission",
                "Cookie Accessible to Client-Side Scripts",
                "Insecure SameSite=None Cookie", "Excessive Cookie Expiration Date"}

ScriptTypes == {"Third-Party Tracking Script Detected",
                "Device Fingerprinting Script Detected", "Third-Party Fonts Loaded",
                "Google ReCAPTCHA Implementation"}

\* 1 for a violation of a cookie rule, 2 of a script rule, 3 of a document rule
FamilyRank(v) == IF v.type \in CookieTypes THEN 1 ELSE IF v.type \in ScriptTypes THEN 2 ELSE 3

\* C10: in a result the violations of cookie rules come first, then those of
\* script rules, then those of document rules; within the cookie family and
\* within the script family they follow the order of the input list.
C10_FamilyAndItemOrder ==
    Returned(last) =>
        LET vs == last.result.violations
        IN \A j, k \in 1..Len(vs) :
              /\ vs[k].family = (<<"cookie", "script", "document">>)[FamilyRank(vs[k])]
              /\ j < k =>
                 /\ FamilyRank(vs[j]) <= FamilyRank(vs[k])
                 /\ FamilyRank(vs[j]) = FamilyRank(vs[k]) /\ FamilyRank(vs[j]) < 3
                       => vs[j].item <= vs[k].item

\* a result with violations of a cookie rule, a script rule and a document rule
C10_Witness ==
    /\ Returned(last)
    /\ \A f \in 1..3 :
          \E k \in 1..Len(last.result.violations) : FamilyRank(last.result.violations[k]) = f

\* vs holds a violation of the given type pushed for the item-th entry of a family
Has(vs, type, family, item) ==
    \E k \in 1..Len(vs) :
        vs[k].type = type /\ vs[k].family = family /\ vs[k].item = item

\* how many violations of vs have the given type
CountType(vs, type) == Cardinality({k \in 1..Len(vs) : vs[k].type = type})

\* the site's base domain as the specification words it: the hostname without
\* a leading "www."
BaseDomain(hostname) ==
    IF startsWith(hostname, "www.") THEN substring(hostname, 4) ELSE hostname

\* C11: every cookie whose domain does not end in the scanned site's base
\* domain gets a 'Third-Party Cookie Set' violation, whatever its other
\* attributes are.
C11_ForeignCookieFlagged ==
    Returned(last) =>
        LET cookies == last.input.rawData.cookies
            base == BaseDomain(URL(last.input.url).hostname)
        IN \A i \in 1..Len(cookies) :
              ~endsWith(cookies[i].domain, base)
                 => Has(last.result.violations, "Third-Party Cookie Set", "cookie", i)

\* C12: every cookie with secure=false gets 'Insecure Cookie Transmission',
\* and with sameSite=None besides it gets 'Insecure SameSite=None Cookie' too.
C12_InsecureCookieFlagged ==
    Returned(last) =>
        LET cookies == last.input.rawData.cookies
            vs == last.result.violations
        IN \A i \in 1..Len(cookies) :
              ~cookies[i].secure =>
                 /\ Has(vs, "Insecure Cookie Transmission", "cookie", i)
                 /\ cookies[i].sameSite = "None"
                       => Has(vs, "Insecure SameSite=None Cookie", "cookie", i)

\* a scan returned for a list whose second cookie is insecure with
\* SameSite=None, both violations being reported for it
C12_Witness ==
    /\ Returned(last)
    /\ Len(last.input.rawData.cookies) = 2
    /\ ~last.input.rawData.cookies[2].secure
    /\ last.input.rawData.cookies[2].sameSite = "None"
    /\ Has(last.result.violations, "Insecure Cookie Transmission", "cookie", 2)
    /\ Has(last.result.violations, "Insecure SameSite=None Cookie", "cookie", 2)

\* no element of doc carries the markup the banner selector looks for
NoConsentMarkup(doc) ==
    \A k \in 1..Len(doc) :
        /\ ~attrContains(doc[k], "id", "consent")
        /\ ~attrContains(doc[k], "class", "cookie")
        /\ ~attrContains(doc[k], "aria-label", "cookie")
        /\ ~attrContains(doc[k], "data-testid", "consent")

\* C13: with no cookies, no scripts and a document without consent markup,
\* the result has hasConsentBanner = false and holds a 'No Consent Banner
\* Detected' violation of severity Critical.
C13_NoBannerReported ==
    /\ Returned(last)
    /\ last.input.rawData.cookies = <<>>
    /\ last.input.rawData.scripts = <<>>
    /\ NoConsentMarkup(last.input.rawData.html)
    => /\ ~last.result.hasConsentBanner
       /\ \E k \in 1..Len(last.result.violations) :
              /\ last.result.violations[k].type = "No Consent Banner Detected"
              /\ last.result.violations[k].severity = "Critical"

\* such a scan of a document that has elements, none with consent markup
C13_Witness ==
    /\ Returned(last)
    /\ last.input.rawData.cookies = <<>>
    /\ last.input.rawData.scripts = <<>>
    /\ Len(last.input.rawData.html) > 0
    /\ NoConsentMarkup(last.input.rawData.html)
    /\ ~last.result.hasConsentBanner
    /\ CountType(last.result.violations, "No Consent Banner Detected") = 1

\* doc has an anchor whose text contains t
AnchorContains(doc, t) ==
    \E k \in 1..Len(doc) : doc[k].tag = "a" /\ includes(doc[k].text, t)

\* C14 as stated: an anchor whose text is 'Privacy Policy' rules the
\* 'Privacy Policy Link Missing' violation out, and when no anchor contains
\* 'Privacy Policy' the violation is emitted exactly once.
C14_PrivacyPolicyAnchorDecides ==
    Returned(last) =>
        LET doc == last.input.rawData.html
            n == CountType(last.result.violations, "Privacy Policy Link Missing")
        IN /\ (\E k \in 1..Len(doc) : doc[k].tag = "a" /\ trim(doc[k].text) = "Privacy Policy")
                 => n = 0
           /\ ~AnchorContains(doc, "Privacy Policy") => n = 1

\* C14, amended: an anchor whose text contains 'Privacy' or 'privacy policy'
\* rules the violation out, and when no anchor contains either the violation
\* is emitted exactly once.
C14_PrivacyAnchorDecides ==
    Returned(last) =>
        LET doc == last.input.rawData.html
            n == CountType(last.result.violations, "Privacy Policy Link Missing")
        IN IF AnchorContains(doc, "Privacy") \/ AnchorContains(doc, "privacy policy")
           THEN n = 0
           ELSE n = 1

\* a scan of a document whose only privacy anchor does not read 'Privacy
\* Policy': the violation is not emitted
C14_Witness ==
    /\ Returned(last)
    /\ AnchorContains(last.input.rawData.html, "Privacy")
    /\ ~AnchorContains(last.input.rawData.html, "Privacy Policy")
    /\ CountType(last.result.violations, "Privacy Policy Link Missing") = 0

\* the example scenario: the page has no consent banner, the only cookie is a
\* third-party one from tracker.example with secure=false, the only script is
\* https://www.google-analytics.com/analytics.js
ExampleScenario(in) ==
    /\ NoConsentMarkup(in.rawData.html)
    /\ Len(in.rawData.cookies) = 1
    /\ cookieDomainOf(in.rawData.cookies[1]) = "tracker.example"
    /\ ~in.rawData.cookies[1].secure
    /\ in.rawData.scripts = << Script("https://www.google-analytics.com/analytics.js") >>

\* vs holds a violation of the given type and severity
HasSeverity(vs, type, severity) ==
    \E k \in 1..Len(vs) : vs[k].type = type /\ vs[k].severity = severity

\* the four violations the example expects at least
ExampleViolations(vs) ==
    /\ HasSeverity(vs, "No Consent Banner Detected", "Critical")
    /\ HasSeverity(vs, "Third-Party Cookie Set", "High")
    /\ HasSeverity(vs, "Insecure Cookie Transmission", "High")
    /\ HasSeverity(vs, "Third-Party Tracking Script Detected", "Critical")

\* C15 as stated: in the example scenario the output contains the four
\* violations and the score is 100 - 20 - 10 - 10 - 20 = 40.
C15_ExampleScores40 ==
    Returned(last) /\ ExampleScenario(last.input) =>
        /\ ExampleViolations(last.result.violations)
        /\ last.result.score = 40

\* C15, amended: in the example scenario the output contains the four
\* violations; the score is 40 exactly when they are the only violations, and
\* lower when another rule fires for the page or the cookie.
C15_ExampleScoresAtMost40 ==
    Returned(last) /\ ExampleScenario(last.input) =>
        /\ ExampleViolations(last.result.violations)
        /\ last.result.score <= 40
        /\ last.result.score = 40 <=> Len(last.result.violations) = 4

\* the example scenario on a page that gives no other rule a reason to fire
C15_Witness ==
    /\ Returned(last)
    /\ ExampleScenario(last.input)
    /\ Len(last.result.violations) = 4
    /\ last.result.score = 40

\* vs holds a violation pushed for the item-th entry of a family
HasAny(vs, family, item) ==
    \E k \in 1..Len(vs) : vs[k].family = family /\ vs[k].item = item

\* C16: a script whose src is no absolute URL does not make mapViolations
\* raise and contributes no violation to the result.
C16_MalformedScriptContributesNothing ==
    last.called /\ URL(last.input.url).ok =>
        /\ ~last.threw
        /\ \A i \in 1..Len(last.input.rawData.scripts) :
              ~URL(last.input.rawData.scripts[i].src).ok
                 => ~HasAny(last.result.violations, "script", i)

\* C17: mapViolations never raises: whatever it is given, a target url that
\* is no absolute URL included, it returns an AnalysisResult.
C17_MapViolationsNeverRaises ==
    last.called => ~last.threw

\* the fields of a record
Fields(rec) == DOMAIN rec

\* the script entries of the result carry the classification the tracker rule
\* used: an entry is flagged whenever the rule reported its script, an entry
\* whose src is no absolute URL is not flagged
ScriptsAnnotated ==
    LET scripts == last.input.rawData.scripts
        vs == last.result.violations
    IN /\ Len(last.result.scripts) = Len(scripts)
       /\ \A i \in 1..Len(scripts) :
             /\ Fields(last.result.scripts[i]) = {"src", "isThirdParty"}
             /\ last.result.scripts[i].src = scripts[i].src
             /\ last.result.scripts[i].isThirdParty \in BOOLEAN
             /\ (\/ Has(vs, "Third-Party Tracking Script Detected", "script", i)
                 \/ Has(vs, "Device Fingerprinting Script Detected", "script", i))
                   => last.result.scripts[i].isThirdParty
             /\ ~URL(scripts[i].src).ok => ~last.result.scripts[i].isThirdParty

\* C19 as stated: every cookie entry and every script entry of the result is
\* annotated with its derived third-party flag.
C19_CookiesAndScriptsAnnotated ==
    Returned(last) =>
        /\ ScriptsAnnotated
        /\ \A i \in 1..Len(last.result.cookies) :
              "isThirdParty" \in Fields(last.result.cookies[i])

\* C19, amended: every script entry is annotated with its derived third-party
\* flag; a cookie entry holds name, value, domain, secure, httpOnly and
\* sameSite of its cookie and no third-party flag.
C19_ScriptsAnnotatedCookiesPlain ==
    Returned(last) =>
        /\ ScriptsAnnotated
        /\ Len(last.result.cookies) = Len(last.input.rawData.cookies)
        /\ \A i \in 1..Len(last.result.cookies) :
              /\ Fields(last.result.cookies[i])
                    = {"name", "value", "domain", "secure", "httpOnly", "sameSite"}
              /\ last.result.cookies[i].domain = last.input.rawData.cookies[i].domain

\* a result with a third-party cookie reported, a flagged tracker script and
\* an unflagged script
C19_Witness ==
    /\ Returned(last)
    /\ \E i \in 1..Len(last.result.cookies) :
          Has(last.result.violations, "Third-Party Cookie Set", "cookie", i)
    /\ \E i \in 1..Len(last.result.scripts) : last.result.scripts[i].isThirdParty
    /\ \E i \in 1..Len(last.result.scripts) : ~last.result.scripts[i].isThirdParty

\* the steps of acceptCookieBanners
BannerSteps == {"isVisible", "click", "settle"}

\* C18: while the candidates are tried nothing is thrown, whatever is found,
\* seen or clicked; acceptCookieBanners ends in the network-idle wait, and the
\* scan stands there as it does after a successful click.
C18_NoBannerIsNoError ==
    /\ [][\A r \in Requests :
             req[r].pc \in BannerSteps =>
                /\ req'[r].pc \in BannerSteps \cup {"networkidle"}
                /\ ~req'[r].thrown /\ req'[r].failedAt = ""
                /\ req'[r].browser = "open"]_vars
    /\ [](\A r \in Requests :
             req[r].pc = "networkidle" /\ ~req[r].pageGone =>
                [req[r] EXCEPT !.clicks = 0]
                   = [IdleRequest EXCEPT !.pc = "networkidle", !.url = req[r].url,
                                         !.browser = "open", !.scans = 1])

\* a request whose ten candidates all failed was answered with a report
C18_Witness ==
    \E r \in Requests :
        /\ req[r].pc = "done"
        /\ req[r].clicks = 0
        /\ req[r].got = Artifacts
        /\ Len(ReportsOf(r)) = 1

\* the responses of a request that are no report
FailuresOf(r) == SelectSeq(req[r].responses, LAMBDA resp : resp.status # 200)

TriedInOrder ==
    \A r \in Requests :
        /\ req[r].pc = "goto" /\ req'[r].pc # "goto" /\ ~req'[r].thrown
              => req'[r].pc = "isVisible" /\ req'[r].sel = 1
        /\ req[r].pc \in BannerSteps /\ req'[r].sel # req[r].sel
              => \/ req'[r].sel = req[r].sel + 1 /\ req'[r].pc = "isVisible"
                 \/ req'[r].sel = 0 /\ req'[r].pc = "networkidle"
        /\ req[r].pc = "click" /\ req'[r] # req[r] /\ req'[r].clicks = req[r].clicks
              => req'[r] = NextSelector(req[r])

WithinDomain(host, base) == host = base \/ endsWith(host, "." \o base)

\* C22: a cookie or script is third-party exactly when its domain or hostname
\* lies outside the site's base domain (the site hostname without a leading
\* "www."): a host that only has the base domain as a string suffix is
\* third-party, and "www." elsewhere in the site hostname is not stripped.
C22_ThirdPartyByDomain ==
    Returned(last) =>
        LET base == BaseDomain(URL(last.input.url).hostname)
            cookies == last.input.rawData.cookies
            scripts == last.input.rawData.scripts
        IN /\ \A i \in 1..Len(cookies) :
                 Has(last.result.violations, "Third-Party Cookie Set", "cookie", i)
                    <=> ~WithinDomain(cookieDomainOf(cookies[i]), base)
           /\ \A i \in 1..Len(scripts) :
                 URL(scripts[i].src).ok =>
                    (last.result.scripts[i].isThirdParty
                       <=> ~WithinDomain(URL(scripts[i].src).hostname, base))

\* the severities in rising order
SeverityRank(sev) ==
    CASE sev = "Low" -> 1 [] sev = "Medium" -> 2 [] sev = "High" -> 3 [] sev = "Critical" -> 4

\* C23 as stated: the violation for a fingerprinting script has a strictly
\* higher severity than the violation for an ordinary tracker.
C23_FingerprintingRanksHigher ==
    Returned(last) =>
        \A j, k \in 1..Len(last.result.violations) :
            /\ last.result.violations[j].type = "Device Fingerprinting Script Detected"
            /\ last.result.violations[k].type = "Third-Party Tracking Script Detected"
            => SeverityRank(last.result.violations[j].severity)
                  > SeverityRank(last.result.violations[k].severity)

\* C23, amended: a third-party script of the tracker catalog is reported as
\* 'Device Fingerprinting Script Detected' when its src contains
\* "fingerprint" and as 'Third-Party Tracking Script Detected' otherwise; the
\* two types are distinct and both have severity Critical.
C23_FingerprintingDistinctSameSeverity ==
    Returned(last) =>
        LET vs == last.result.violations
            scripts == last.input.rawData.scripts
        IN /\ \A k \in 1..Len(vs) :
                 vs[k].type \in {"Device Fingerprinting Script Detected",
                                 "Third-Party Tracking Script Detected"}
                    => vs[k].severity = "Critical"
           /\ \A i \in 1..Len(scripts) :
                 /\ Has(vs, "Device Fingerprinting Script Detected", "script", i)
                       => /\ includes(scripts[i].src, "fingerprint")
                          /\ ~Has(vs, "Third-Party Tracking Script Detected", "script", i)
                 /\ Has(vs, "Third-Party Tracking Script Detected", "script", i)
                       => ~includes(scripts[i].src, "fingerprint")
                 /\ last.result.scripts[i].isThirdParty /\ isKnownTracker(scripts[i].src)
                       => \/ Has(vs, "Device Fingerprinting Script Detected", "script", i)
                          \/ Has(vs, "Third-Party Tracking Script Detected", "script", i)

\* a result that reports a tracker and a fingerprinting script
C23_Witness ==
    /\ Returned(last)
    /\ CountType(last.result.violations, "Device Fingerprinting Script Detected") = 1
    /\ CountType(last.result.violations, "Third-Party Tracking Script Detected") = 1

\* some element of doc has an id, class, aria-label or data-testid that
\* contains "consent" or "cookie"
HasConsentKeyword(doc) ==
    \E k \in 1..Len(doc) :
        \E a \in {"id", "class", "aria-label", "data-testid"} :
            attrContains(doc[k], a, "consent") \/ attrContains(doc[k], a, "cookie")

\* C24: when some element's id, class, aria-label or data-testid contains
\* "consent" or "cookie", hasConsentBanner is true and no 'No Consent Banner
\* Detected' violation is emitted; when no element does, hasConsentBanner is
\* false and the violation is emitted with severity Critical.
C24_KeywordElementIsBanner ==
    Returned(last) =>
        LET vs == last.result.violations
            doc == last.input.rawData.html
        IN IF HasConsentKeyword(doc)
           THEN /\ last.result.hasConsentBanner
                /\ CountType(vs, "No Consent Banner Detected") = 0
           ELSE /\ ~last.result.hasConsentBanner
                /\ \E k \in 1..Len(vs) : /\ vs[k].type = "No Consent Banner Detected"
                                         /\ vs[k].severity = "Critical"

\* the lower-cased text of the elements the banner selector finds in doc
BannerText(doc) == toLowerCase(concatText(SelectSeq(doc, isConsentBanner), 1))

\* C25: when a banner is detected, 'Lack of Granular Consent Control' is
\* emitted exactly once, with severity High, if the banner's lower-cased
\* text contains none of "setting", "manage", "preference", "reject", and is
\* not emitted if it contains one of them; it is never emitted when no
\* banner is detected.
C25_GranularControlRule ==
    Returned(last) =>
        LET vs == last.result.violations
            text == BannerText(last.input.rawData.html)
            lacking == \A w \in {"setting", "manage", "preference", "reject"} : ~includes(text, w)
        IN /\ CountType(vs, "Lack of Granular Consent Control")
                 = IF last.result.hasConsentBanner /\ lacking THEN 1 ELSE 0
           /\ \A k \in 1..Len(vs) :
                 vs[k].type = "Lack of Granular Consent Control" => vs[k].severity = "High"

\* an accept-only banner was scanned and reported
C25_Witness ==
    /\ Returned(last)
    /\ last.result.hasConsentBanner
    /\ ~includes(BannerText(last.input.rawData.html), "reject")
    /\ CountType(last.result.violations, "Lack of Granular Consent Control") = 1

Categories ==
    {"Tracking & Consent", "Data Security", "Data Minimization",
     "Consent & Transparency", "User Rights", "Data Transfer"}

\* C26: in any result of mapViolations, two violations with the same type
\* have the same severity and the same category, every severity is one of
\* Low, Medium, High, Critical and every category is one of the six
\* categories of the catalog.
C26_SeverityAndCategoryPerType ==
    Returned(last) =>
        LET vs == last.result.violations
        IN /\ \A j, k \in 1..Len(vs) :
                 vs[j].type = vs[k].type
                    => vs[j].severity = vs[k].severity /\ vs[j].category = vs[k].category
           /\ \A k \in 1..Len(vs) :
                 vs[k].severity \in Severities /\ vs[k].category \in Categories

\* a result with two violations of one type and violations of another type
C26_Witness ==
    /\ Returned(last)
    /\ \E j, k \in 1..Len(last.result.violations) :
          j < k /\ last.result.violations[j].type = last.result.violations[k].type
    /\ \E j, k \in 1..Len(last.result.violations) :
          last.result.violations[j].severity # last.result.violations[k].severity

\* C27: a cookie with httpOnly = false yields 'Cookie Accessible to
\* Client-Side Scripts' exactly when its name starts with neither "__utm"
\* nor "_ga"; a cookie with httpOnly = true never yields it.
C27_HttpOnlyWithAllowList ==
    Returned(last) =>
        LET vs == last.result.violations
            cookies == last.input.rawData.cookies
        IN \A i \in 1..Len(cookies) :
              Has(vs, "Cookie Accessible to Client-Side Scripts", "cookie", i)
                 <=> /\ ~cookies[i].httpOnly
                     /\ ~startsWith(cookies[i].name, "__utm")
                     /\ ~startsWith(cookies[i].name, "_ga")

\* two cookies readable by scripts were scanned: the analytics cookie is
\* exempt, the other one is reported
C27_Witness ==
    /\ Returned(last)
    /\ \E i, j \in 1..Len(last.input.rawData.cookies) :
          /\ ~last.input.rawData.cookies[i].httpOnly
          /\ startsWith(last.input.rawData.cookies[i].name, "__utm")
          /\ ~Has(last.result.violations, "Cookie Accessible to Client-Side Scripts", "cookie", i)
          /\ ~last.input.rawData.cookies[j].httpOnly
          /\ Has(last.result.violations, "Cookie Accessible to Client-Side Scripts", "cookie", j)

\* the retention ceiling of a scan made at clock reading t, in epoch seconds
RetentionCeiling(t) == (Epoch0 + t) + 13 * 30 * 24 * 60 * 60

\* C28: a session cookie (expires = -1) never yields 'Excessive Cookie
\* Expiration Date'; a cookie with an expiry yields it exactly when the
\* expiry is later than the scan time plus 13 * 30 * 24 * 60 * 60 seconds,
\* so a cookie expiring exactly at that ceiling does not yield it.
C28_ExpiryBeyondCeiling ==
    Returned(last) =>
        LET vs == last.result.violations
            cookies == last.input.rawData.cookies
        IN \A i \in 1..Len(cookies) :
              Has(vs, "Excessive Cookie Expiration Date", "cookie", i)
                 <=> /\ cookies[i].expires # -1
                     /\ cookies[i].expires > RetentionCeiling(last.t)

\* a scan of a cookie expiring exactly at the ceiling, not reported, and of
\* one expiring a second later, reported
C28_Witness ==
    /\ Returned(last)
    /\ \E i, j \in 1..Len(last.input.rawData.cookies) :
          /\ last.input.rawData.cookies[i].expires = RetentionCeiling(last.t)
          /\ ~Has(last.result.violations, "Excessive Cookie Expiration Date", "cookie", i)
          /\ last.input.rawData.cookies[j].expires = RetentionCeiling(last.t) + 1
          /\ Has(last.result.violations, "Excessive Cookie Expiration Date", "cookie", j)

\* C29: in every result of mapViolations, hasConsentBanner is false exactly
\* when the violations hold one 'No Consent Banner Detected', and true
\* exactly when they hold none.
C29_BannerFlagMatchesViolation ==
    Returned(last) =>
        /\ ~last.result.hasConsentBanner
              <=> CountType(last.result.violations, "No Consent Banner Detected") = 1
        /\ last.result.hasConsentBanner
              <=> CountType(last.result.violations, "No Consent Banner Detected") = 0

\* a document without banner was scanned next to cookies and scripts that
\* have violations of their own
C29_Witness ==
    /\ Returned(last)
    /\ ~last.result.hasConsentBanner
    /\ CountType(last.result.violations, "No Consent Banner Detected") = 1
    /\ Len(last.result.violations) > 2

\* C30: for each request scanWebsite is invoked at most once; a failed scan
\* is not retried and is answered with a single status-500 response; a
\* request without url is answered with status 400 and scanWebsite is not
\* invoked for it.
C30_ScanAtMostOncePerRequest ==
    \A r \in Requests :
        /\ req[r].scans <= 1
        /\ Len(req[r].responses) <= 1
        /\ req[r].pc = "done" =>
              /\ Len(req[r].responses) = 1
              /\ req[r].outcome = "rejected"
                    => req[r].scans = 1 /\ req[r].responses[1].status = 500
              /\ req[r].url = ""
                    => /\ req[r].scans = 0
                       /\ req[r].browser = "none"
                       /\ req[r].responses[1].status = 400
              /\ req[r].responses[1].status = 400 => req[r].scans = 0

\* one request's scan failed and was answered 500, another one had no url
\* and was answered 400
C30_Witness ==
    \E r, q \in Requests :
        /\ req[r].pc = "done" /\ req[r].outcome = "rejected"
        /\ req[r].scans = 1 /\ req[r].responses = << ScanFailed >>
        /\ req[q].pc = "done" /\ req[q].scans = 0 /\ req[q].responses = << BadRequest >>

=============================================================================
